---------------------------- MODULE Spec2Model ----------------------------
(***************************************************************************)
(* A model of golp's event accumulator (package event): the buffer that    *)
(* Write escapes its input into, the flush that emits one record with its  *)
(* envelope and truncation marker, and the writeLoop goroutine that        *)
(* serialises Write, Flush, AutoFlush, Stop and the auto-flush timer; and  *)
(* of the parser (package parser) and Golp.Run, which feed it lines.       *)
(*                                                                         *)
(* A byte is a one-element name: "a" is any plain byte, "bs" the           *)
(* backslash, "q" the double quote, "nl" "cr" "tab" "bsp" "ff" the control *)
(* bytes the escaper rewrites, and "n" "r" "t" "b" "f" the letters of      *)
(* their two-character escapes.  A byte string is a sequence of bytes.     *)
(***************************************************************************)
EXTENDS Integers, Sequences, FiniteSets, TLC

(***************************************************************************)
(* Bounds of the model.                                                    *)
(***************************************************************************)
MaxWriteLen == 2      \* longest p of the enumerated Write inputs
MaxExceeded == 6      \* Write is not called once exceeded would pass this
MaxBuf == 4           \* with no cap: Write is not called on a longer buffer
MaxTimers == 2        \* timers created by AutoFlush in one behaviour
MaxOps == 3           \* calls issued in one behaviour of the actor model

(***************************************************************************)
(* Byte strings.                                                           *)
(***************************************************************************)
RECURSIVE Strings(_, _)
Strings(S, n) ==
    IF n = 0 THEN {<<>>}
    ELSE LET shorter == Strings(S, n - 1)
         IN  shorter \cup {Append(s, b) : s \in {x \in shorter : Len(x) = n - 1}, b \in S}

DigitChar(d) == <<"0", "1", "2", "3", "4", "5", "6", "7", "8", "9">>[d + 1]

\* strconv.FormatInt(int64(t), 10) for t >= 0
RECURSIVE FormatInt(_)
FormatInt(t) ==
    IF t < 10 THEN <<DigitChar(t)>>
    ELSE Append(FormatInt(t \div 10), DigitChar(t % 10))

\* uintLen: int(math.Log10(float64(i))) + 1, and 1 for 0.  For the values the
\* model reaches (below 10^15) the float logarithm truncates to the number of
\* decimal digits minus one.
RECURSIVE uintLen(_)
uintLen(i) == IF i < 10 THEN 1 ELSE 1 + uintLen(i \div 10)

(***************************************************************************)
(* Construction: New and its options.  An option is a record; New applies  *)
(* the options in order and then validates the cap against the envelope.   *)
(***************************************************************************)
NoContext == <<>>
OneContext == <<"{", "q", "k", "q", ":", "q", "v", "q", "}">>   \* json.Marshal({"k":"v"})

\* the Event with a closing brace in its jsonSuffix
NewEventClosingBrace ==
    [maxLen |-> 0, allowJSON |-> FALSE, prefix |-> <<>>, suffix |-> <<"nl">>,
     jsonPrefix |-> <<>>, jsonSuffix |-> <<"}", "nl">>, timePrefix |-> <<>>,
     timeFormat |-> <<>>, err |-> FALSE]

NewEvent ==
    [maxLen |-> 0, allowJSON |-> FALSE, prefix |-> <<>>, suffix |-> <<"nl">>,
     jsonPrefix |-> <<>>, jsonSuffix |-> <<"nl">>, timePrefix |-> <<>>,
     timeFormat |-> <<>>, err |-> FALSE]

\* a context that keeps its closing brace before the comma
ReopenContextKeepsBrace(ctxJSON) == ctxJSON \o <<",">>

\* the context with its closing brace replaced by a comma
ReopenContext(ctxJSON) == SubSeq(ctxJSON, 1, Len(ctxJSON) - 1) \o <<",">>

AllowJSON(e, enabled, ctxJSON) ==
    [e EXCEPT !.allowJSON = enabled,
              !.jsonPrefix = IF Len(ctxJSON) > 0 THEN ReopenContext(ctxJSON) ELSE <<"{">>]

JSONOutput(e, messageKey, ctxJSON) ==
    LET key == IF messageKey = <<>> THEN <<"m", "s", "g">> ELSE messageKey
        ctx == IF Len(ctxJSON) > 0 THEN Tail(ReopenContext(ctxJSON)) ELSE <<>>
    IN  [e EXCEPT !.prefix = <<"{">> \o ctx \o <<"q">> \o key \o <<"q", ":", "q">>,
                  !.suffix = <<"q", "}", "nl">>]

AddTimestamp(e, jsonKey, format) ==
    IF Len(e.prefix) = 0 THEN [e EXCEPT !.err = TRUE]
    ELSE [e EXCEPT !.timePrefix = <<"q", ",", "q">> \o jsonKey \o <<"q", ":">>,
                   !.timeFormat = format,
                   !.suffix = <<"}", "nl">>]

MaxLen(e, maxLen) == [e EXCEPT !.maxLen = maxLen]

ApplyOption(e, o) ==
    CASE o.opt = "MaxLen" -> MaxLen(e, o.maxLen)
      [] o.opt = "AllowJSON" -> AllowJSON(e, o.enabled, o.ctx)
      [] o.opt = "JSONOutput" -> JSONOutput(e, o.key, o.ctx)
      [] o.opt = "AddTimestamp" -> AddTimestamp(e, o.key, o.format)

RECURSIVE ApplyOptions(_, _)
ApplyOptions(e, options) ==
    IF options = <<>> \/ e.err THEN e
    ELSE ApplyOptions(ApplyOption(e, Head(options)), Tail(options))

\* a minPayload that leaves the timestamp field out
MinPayloadWithoutTimestamp(e) == Len(e.prefix) + Len(e.suffix)

MinPayload(e) ==
    Len(e.prefix) + Len(e.suffix)
    + (IF Len(e.timePrefix) > 0 THEN Len(e.timePrefix) + Len(e.timeFormat) ELSE 0)

New(options) ==
    LET e == ApplyOptions(NewEvent, options)
    IN  IF e.err THEN e
        ELSE IF e.maxLen > 0 /\ e.maxLen < MinPayload(e) THEN [e EXCEPT !.err = TRUE]
        ELSE e


(***************************************************************************)
(* Write: the escaper and the cap.                                         *)
(***************************************************************************)
\* an isJSON that takes no input for JSON
isJSONNever(b) == FALSE

\* isJSON: b *seems* to contain a JSON object
isJSONBytes(b) == Len(b) >= 2 /\ b[1] = "{" /\ b[2] = "q"

\* a switch without its case for the tab
EscapeByteNoTab(b) ==
    CASE b = "q" -> <<"bs", "q">>
      [] b = "bs" -> <<"bs", "bs">>
      [] b = "bsp" -> <<"bs", "b">>
      [] b = "ff" -> <<"bs", "f">>
      [] b = "nl" -> <<"bs", "n">>
      [] b = "cr" -> <<"bs", "r">>
      [] OTHER -> <<b>>

\* the switch of doWrite: the bytes appended to the buffer for input byte b
EscapeByte(b) ==
    CASE b = "q" -> <<"bs", "q">>
      [] b = "bs" -> <<"bs", "bs">>
      [] b = "bsp" -> <<"bs", "b">>
      [] b = "ff" -> <<"bs", "f">>
      [] b = "nl" -> <<"bs", "n">>
      [] b = "cr" -> <<"bs", "r">>
      [] b = "tab" -> <<"bs", "t">>
      [] OTHER -> <<b>>

\* overhead := len(e.prefix) + len(e.suffix)
Overhead(e) == Len(e.prefix) + Len(e.suffix)

\* e.maxLen > 0 && e.buf.Len()+overhead+len(e.wbuf) > e.maxLen
OverCap(e, bufLen, wbuf) == e.maxLen > 0 /\ bufLen + Overhead(e) + Len(wbuf) > e.maxLen

\* One iteration of doWrite's loop on byte p[i] (i counts from 1): w is the
\* write in progress, [p, i, buf, exceeded, n, done].
WriteByte(e, w) ==
    LET wbuf == EscapeByte(w.p[w.i])
    IN  IF OverCap(e, Len(w.buf), wbuf)
        THEN [w EXCEPT !.exceeded = Len(w.p) - (w.i - 1), !.done = TRUE]
        ELSE [w EXCEPT !.buf = w.buf \o wbuf, !.n = w.n + Len(wbuf), !.i = w.i + 1,
                       !.done = (w.i + 1 > Len(w.p))]

RECURSIVE EscapeLoop(_, _)
EscapeLoop(e, w) == IF w.done THEN w ELSE EscapeLoop(e, WriteByte(e, w))

\* The part of doWrite before the loop: st is [buf, exceeded, isJSON, out].
\* Gives the state after it, the value n returned so far and whether doWrite
\* has returned.
\* a WriteHead without the return of raw-JSON mode: the input goes on to the
\* escaping loop
WriteHeadEscapesJSON(e, st, p) ==
    IF e.allowJSON /\ ~st.isJSON /\ Len(st.buf) = 0 /\ isJSONBytes(p)
    THEN [st |-> [st EXCEPT !.isJSON = TRUE, !.out = st.out \o e.jsonPrefix \o Tail(p)],
          n |-> Len(Tail(p)) + 1, returned |-> TRUE]
    ELSE IF st.exceeded > 0
    THEN [st |-> [st EXCEPT !.exceeded = st.exceeded + Len(p)], n |-> 0, returned |-> TRUE]
    ELSE [st |-> st, n |-> 0, returned |-> FALSE]

WriteHead(e, st, p) ==
    IF e.allowJSON /\ ~st.isJSON /\ Len(st.buf) = 0 /\ isJSONBytes(p)
    THEN [st |-> [st EXCEPT !.isJSON = TRUE, !.out = st.out \o e.jsonPrefix \o Tail(p)],
          n |-> Len(Tail(p)) + 1, returned |-> TRUE]
    ELSE IF st.isJSON
    THEN [st |-> [st EXCEPT !.out = st.out \o p], n |-> Len(p), returned |-> TRUE]
    ELSE IF st.exceeded > 0
    THEN [st |-> [st EXCEPT !.exceeded = st.exceeded + Len(p)], n |-> 0, returned |-> TRUE]
    ELSE [st |-> st, n |-> 0, returned |-> FALSE]

\* doWrite as a whole: [st, n]
doWrite(e, st, p) ==
    LET h == WriteHead(e, st, p)
    IN  IF h.returned THEN [st |-> h.st, n |-> h.n]
        ELSE LET w == EscapeLoop(e, [p |-> p, i |-> 1, buf |-> st.buf, exceeded |-> 0,
                                     n |-> 0, done |-> (Len(p) = 0)])
             IN  [st |-> [st EXCEPT !.buf = w.buf, !.exceeded = w.exceeded], n |-> w.n]

(***************************************************************************)
(* Flush: the record and its truncation marker.                            *)
(***************************************************************************)
elipse == <<"[", "]", ".", ".", ".">>

\* pos := len(msg) - (t - e.exceeded), t the estimate with the marker
MarkerPos(msg, exceeded) ==
    LET t0 == exceeded + Len(elipse)
        t == t0 + uintLen(t0)
    IN  Len(msg) - (t - exceeded)

\* for pos-escapes > 0 && msg[pos-escapes] == '\\' { escapes++ }   (msg from 0)
RECURSIVE CountEscapes(_, _, _)
CountEscapes(msg, pos, escapes) ==
    IF pos - escapes > 0 /\ msg[pos - escapes + 1] = "bs"
    THEN CountEscapes(msg, pos, escapes + 1)
    ELSE escapes

\* the cut point after the search for a run of backslashes
AdjustPos(msg, pos) ==
    LET escapes == CountEscapes(msg, pos, 0)
    IN  IF escapes > 0 THEN pos - ((escapes + 1) % 2) ELSE pos

\* the count of truncated bytes before escaping: t from e.exceeded, i from pos
RECURSIVE CountTruncated(_, _, _)
CountTruncated(msg, i, t) ==
    IF i >= Len(msg) THEN t
    ELSE IF msg[i + 1] = "bs" THEN CountTruncated(msg, i + 2, t + 1)
    ELSE CountTruncated(msg, i + 1, t + 1)

\* msg[:pos] + "[" + t + "]..."
Splice(msg, pos, t) ==
    SubSeq(msg, 1, pos) \o <<elipse[1]>> \o FormatInt(t) \o SubSeq(elipse, 2, Len(elipse))

\* Message with the test of the cut point off by one (pos > 1 for pos > 0)
MessageCutOffByOne(buf, exceeded) ==
    IF exceeded > 0 /\ Len(buf) > Len(elipse) + 1
    THEN LET pos0 == MarkerPos(buf, exceeded)
         IN  IF pos0 > 1
             THEN LET pos == AdjustPos(buf, pos0)
                  IN  Splice(buf, pos, CountTruncated(buf, pos, exceeded))
             ELSE buf
    ELSE buf

\* the bytes doFlush writes for the message
Message(buf, exceeded) ==
    IF exceeded > 0 /\ Len(buf) > Len(elipse) + 1
    THEN LET pos0 == MarkerPos(buf, exceeded)
         IN  IF pos0 > 0
             THEN LET pos == AdjustPos(buf, pos0)
                  IN  Splice(buf, pos, CountTruncated(buf, pos, exceeded))
             ELSE buf
    ELSE buf

\* strconv.Quote(TimestampFunc().Format(e.timeFormat)) for the layout "15",
\* the two-digit hour, and a clock that reads `hour`
Timestamp(e, hour) ==
    IF e.timeFormat = <<"1", "5">>
    THEN <<"q", DigitChar(hour \div 10), DigitChar(hour % 10), "q">>
    ELSE <<"q">> \o e.timeFormat \o <<"q">>

\* doFlush up to its deferred e.out.Flush(): the state with the record in out
doFlush(e, st, hour) ==
    IF st.isJSON
    THEN [st EXCEPT !.isJSON = FALSE, !.out = st.out \o e.jsonSuffix]
    ELSE IF Len(st.buf) = 0
    THEN st
    ELSE [st EXCEPT !.out = st.out \o e.prefix \o Message(st.buf, st.exceeded)
                             \o (IF Len(e.timePrefix) > 0
                                 THEN e.timePrefix \o Timestamp(e, hour) ELSE <<>>)
                             \o e.suffix,
                    !.buf = <<>>,
                    !.exceeded = 0]

\* bufio's Flush: the pending bytes go to the sink in one write
outFlush(out, snk) == IF Len(out) > 0 THEN Append(snk, out) ELSE snk

(***************************************************************************)
(* State.                                                                  *)
(*   cfg      the Event's configuration, fixed by New                      *)
(*   ev       buf, exceeded, isJSON and out (the bytes pending in the      *)
(*            bufio.Writer)                                                *)
(*   sink     the writes the underlying writer has received and its reader *)
(*            has not consumed yet                                         *)
(*   timers   the channels made by time.After: "new" (not made yet),       *)
(*            "pending", "fired" (the time is in the channel), "read"      *)
(*   next     the channel writeLoop selects on, 0 for paused               *)
(*   lpc, wr  where writeLoop is, and the command it is running            *)
(*   cpc, call  where each caller is, and the call it is making            *)
(*   ret      what the last Write to return returned, and len(p)           *)
(*   lastOp   the last Write or flush to complete                          *)
(*   written  the number of bytes passed to Write since the last flush     *)
(*   active   the operations that are at work on the Event                 *)
(*   started  the timers writeLoop received from AutoFlush, in order       *)
(*   firedBy  the timer whose expiry made writeLoop flush last, 0 if none  *)
(*   ops      the number of calls made                                     *)
(***************************************************************************)
VARIABLES cfg, ev, sink, timers, next, lpc, wr, cpc, call, ret, lastOp, written,
          active, started, firedBy, ops, run

vars == <<cfg, ev, sink, timers, next, lpc, wr, cpc, call, ret, lastOp, written,
          active, started, firedBy, ops, run>>

actorVars == <<lpc, wr, cpc, call, active, started, firedBy, ops, run>>

Callers == {"main", "signal"}
TimerIds == 1 .. MaxTimers
Hours == {7}

NoCall == [op |-> "none", p |-> <<>>, timer |-> 0]
NoWrite == [caller |-> "none", p |-> <<>>, i |-> 0, n |-> 0, early |-> FALSE]

\* the Event that New returns, before any call
EventInit == [buf |-> <<>>, exceeded |-> 0, isJSON |-> FALSE, out |-> <<>>]

OptMaxLen(n) == [opt |-> "MaxLen", maxLen |-> n]
OptAllowJSON(ctx) == [opt |-> "AllowJSON", enabled |-> TRUE, ctx |-> ctx]
OptJSONOutput(ctx) == [opt |-> "JSONOutput", key |-> <<"m">>, ctx |-> ctx]
OptAddTimestamp == [opt |-> "AddTimestamp", key |-> <<"t">>, format |-> <<"1", "5">>]

\* the option lists the model constructs Events from
SeqOptionLists ==
    { <<OptMaxLen(0)>>,
      <<OptMaxLen(1)>>,
      <<OptMaxLen(9)>>,
      <<OptMaxLen(16), OptJSONOutput(NoContext)>>,
      <<OptMaxLen(16), OptJSONOutput(NoContext), OptAddTimestamp>>,
      <<OptMaxLen(0), OptAllowJSON(OneContext)>>,
      <<OptAddTimestamp, OptJSONOutput(NoContext)>>,
      <<OptMaxLen(5), OptJSONOutput(NoContext)>> }

PlainBytes == {"a", "bs", "nl"}
JSONLine == <<"{", "q", "a", "q", "}">>
Inputs == Strings(PlainBytes, MaxWriteLen) \cup {JSONLine}

\* Golp.Run is not running
NoRun == [pc |-> "none"]

InitCommon ==
    /\ ev = EventInit
    /\ sink = <<>>
    /\ timers = [t \in TimerIds |-> "new"]
    /\ next = 0
    /\ lpc = "select"
    /\ wr = NoWrite
    /\ cpc = [c \in Callers |-> "idle"]
    /\ call = [c \in Callers |-> NoCall]
    /\ ret = [n |-> 0, len |-> 0]
    /\ lastOp = "New"
    /\ written = 0
    /\ active = <<>>
    /\ started = <<>>
    /\ firedBy = 0
    /\ ops = 0

\* The model stops calling Write when the data would pass its bounds.  The sink
\* is write-only for the Event, so nothing the Event does depends on when its
\* reader consumes it: the model lets the reader consume a record before the
\* next Write is called.
WithinBounds(p) ==
    /\ sink = <<>>
    /\ Len(ev.out) <= MaxBuf
    /\ cfg.maxLen = 0 => Len(ev.buf) <= MaxBuf
    /\ ev.exceeded > 0 => ev.exceeded + Len(p) <= MaxExceeded

(***************************************************************************)
(* One caller, each call run to its return: Write and Flush as their       *)
(* caller sees them, and the timer's flush.                                *)
(***************************************************************************)
SeqInit ==
    /\ cfg \in {New(o) : o \in SeqOptionLists}
    /\ ~cfg.err
    /\ InitCommon
    /\ run = NoRun

\* Event.Empty: e.buf.Len() == 0
Empty(st) == Len(st.buf) = 0

\* Event.Flush returns at once: e.buf.Len() == 0 && !e.isJSON
FlushReturnsEarly(st) == Len(st.buf) = 0 /\ ~st.isJSON

SeqWrite(p) ==
    /\ WithinBounds(p)
    /\ LET r == doWrite(cfg, ev, p)
       IN  /\ ev' = r.st
           /\ ret' = [n |-> r.n, len |-> Len(p)]
    /\ lastOp' = "Write"
    /\ written' = written + Len(p)
    /\ UNCHANGED <<cfg, sink, timers, next, actorVars>>

SeqFlush ==
    /\ IF FlushReturnsEarly(ev)
       THEN UNCHANGED <<ev, sink, next>>
       ELSE \E hour \in Hours :
               LET st == doFlush(cfg, ev, hour)
               IN  /\ ev' = [st EXCEPT !.out = <<>>]
                   /\ sink' = outFlush(st.out, sink)
                   /\ next' = 0
    /\ lastOp' = "Flush"
    /\ written' = 0
    /\ UNCHANGED <<cfg, timers, ret, actorVars>>

\* AutoFlush whose timer expires before the caller's next call: writeLoop takes
\* the timer (case timer := <-e.start), the timer fires and writeLoop takes the
\* case <-next, which calls doFlush without Flush's early return.
SeqTimerFlush ==
    /\ \E t \in TimerIds :
          /\ timers[t] = "new"
          /\ \A u \in TimerIds : u < t => timers[u] # "new"
          /\ timers' = [timers EXCEPT ![t] = "read"]
    /\ \E hour \in Hours :
          LET st == doFlush(cfg, ev, hour)
          IN  /\ ev' = [st EXCEPT !.out = <<>>]
              /\ sink' = outFlush(st.out, sink)
    /\ next' = 0
    /\ lastOp' = "TimerFlush"
    /\ written' = 0
    /\ UNCHANGED <<cfg, ret, actorVars>>

\* the reader of the sink consumes what was written to it
Drain ==
    /\ sink # <<>>
    /\ sink' = <<>>
    /\ UNCHANGED <<cfg, ev, timers, next, ret, lastOp, written, actorVars>>

SeqNext ==
    \/ \E p \in Inputs : SeqWrite(p)
    \/ Drain
    \/ SeqFlush
    \/ SeqTimerFlush

SeqSpec == SeqInit /\ [][SeqNext]_vars

(***************************************************************************)
(* The actor: callers send their commands on the Event's channels and      *)
(* writeLoop, one goroutine, receives and runs them one at a time.  A send *)
(* on an unbuffered channel and its receive are one step.  doWrite runs    *)
(* one input byte a step and doFlush in two steps, so that whatever could  *)
(* interleave with them has the chance to.                                 *)
(***************************************************************************)
ActorOptionLists ==
    { <<OptMaxLen(0)>>,
      <<OptMaxLen(4)>>,
      <<OptMaxLen(0), OptAllowJSON(NoContext)>> }

ActorInputs == {<<"a">>, <<"nl", "a">>, <<"{", "q">>}

Init ==
    /\ cfg \in {New(o) : o \in ActorOptionLists}
    /\ ~cfg.err
    /\ InitCommon
    /\ run = NoRun

Push(op) == Append(active, op)
Pop(op) ==
    LET i == CHOOSE j \in 1 .. Len(active) : active[j] = op
    IN  SubSeq(active, 1, i - 1) \o SubSeq(active, i + 1, Len(active))

\* writeLoop is at its select and can receive
AtSelect == lpc = "select"

Sending(c, op) == cpc[c] = "send" /\ call[c].op = op

\* Write: e.write <- func() { n, err = e.doWrite(p); close(done) }
CallWrite(c, p) ==
    /\ cpc[c] = "idle"
    /\ ops < MaxOps
    /\ WithinBounds(p)
    /\ cpc' = [cpc EXCEPT ![c] = "send"]
    /\ call' = [call EXCEPT ![c] = [op |-> "Write", p |-> p, timer |-> 0]]
    /\ ops' = ops + 1
    /\ UNCHANGED <<cfg, ev, sink, timers, next, lpc, wr, ret, lastOp, written, active,
                   started, firedBy>>
    /\ UNCHANGED run

\* What Flush's test of e.buf.Len() and e.isJSON can give.  The caller reads
\* them in its own goroutine, with no synchronisation with writeLoop: while
\* writeLoop is inside doWrite or doFlush the read races with its writes and
\* gives the test's value on the Event as the operation found it or as it is now.
FlushReads ==
    IF AtSelect
    THEN {FlushReturnsEarly(ev)}
    ELSE {wr.early, FlushReturnsEarly(ev)}

\* Flush: the caller reads e.buf.Len() and e.isJSON itself, and returns or
\* sends on e.flush
CallFlush(c) ==
    /\ cpc[c] = "idle"
    /\ ops < MaxOps
    /\ call' = [call EXCEPT ![c] = [op |-> "Flush", p |-> <<>>, timer |-> 0]]
    /\ ops' = ops + 1
    /\ \E early \in FlushReads :
       IF early
       THEN /\ lastOp' = "Flush"
            /\ written' = 0
            /\ UNCHANGED cpc
       ELSE /\ cpc' = [cpc EXCEPT ![c] = "send"]
            /\ UNCHANGED <<lastOp, written>>
    /\ UNCHANGED <<cfg, ev, sink, timers, next, lpc, wr, ret, active, started, firedBy>>
    /\ UNCHANGED run

\* AutoFlush: e.start <- time.After(delay); the timer is made before the send
CallAutoFlush(c) ==
    /\ cpc[c] = "idle"
    /\ ops < MaxOps
    /\ \E t \in TimerIds :
          /\ timers[t] = "new"
          /\ \A u \in TimerIds : u < t => timers[u] # "new"
          /\ timers' = [timers EXCEPT ![t] = "pending"]
          /\ call' = [call EXCEPT ![c] = [op |-> "AutoFlush", p |-> <<>>, timer |-> t]]
    /\ cpc' = [cpc EXCEPT ![c] = "send"]
    /\ ops' = ops + 1
    /\ UNCHANGED <<cfg, ev, sink, next, lpc, wr, ret, lastOp, written, active, started,
                   firedBy>>
    /\ UNCHANGED run

\* Stop: e.stop <- true
CallStop(c) ==
    /\ cpc[c] = "idle"
    /\ ops < MaxOps
    /\ cpc' = [cpc EXCEPT ![c] = "send"]
    /\ call' = [call EXCEPT ![c] = [op |-> "Stop", p |-> <<>>, timer |-> 0]]
    /\ ops' = ops + 1
    /\ UNCHANGED <<cfg, ev, sink, timers, next, lpc, wr, ret, lastOp, written, active,
                   started, firedBy>>
    /\ UNCHANGED run

\* the runtime sends the time on a timer's channel (buffered, so it waits there)
TimerExpire(t) ==
    /\ timers[t] = "pending"
    /\ timers' = [timers EXCEPT ![t] = "fired"]
    /\ UNCHANGED <<cfg, ev, sink, next, lpc, wr, cpc, call, ret, lastOp, written, active,
                   started, firedBy, ops>>
    /\ UNCHANGED run

\* the write in hand as WriteByte takes it
InHand == [p |-> wr.p, i |-> wr.i, buf |-> ev.buf, exceeded |-> ev.exceeded, n |-> wr.n,
           done |-> FALSE]

\* doWrite has returned and the closure sent by Write ends without close(done)
WriteNeverCloses(c, p, n) ==
    /\ ret' = [n |-> n, len |-> Len(p)]
    /\ lastOp' = "Write"
    /\ written' = written + Len(p)
    /\ cpc' = [cpc EXCEPT ![c] = "wait"]
    /\ lpc' = "select"
    /\ wr' = NoWrite

\* doWrite has returned n to caller c for input p: close(done) and Write returns
WriteReturns(c, p, n) ==
    /\ ret' = [n |-> n, len |-> Len(p)]
    /\ lastOp' = "Write"
    /\ written' = written + Len(p)
    /\ cpc' = [cpc EXCEPT ![c] = "idle"]
    /\ lpc' = "select"
    /\ wr' = NoWrite

\* case cmd := <-e.write: cmd() runs doWrite up to its loop
LoopWrite(c) ==
    /\ AtSelect
    /\ Sending(c, "Write")
    /\ LET p == call[c].p
           h == WriteHead(cfg, ev, p)
       IN  /\ ev' = h.st
           /\ IF h.returned \/ Len(p) = 0
              THEN /\ WriteReturns(c, p, h.n)
                   /\ UNCHANGED active
              ELSE /\ lpc' = "write"
                   /\ wr' = [caller |-> c, p |-> p, i |-> 1, n |-> 0,
                             early |-> FlushReturnsEarly(ev)]
                   /\ cpc' = [cpc EXCEPT ![c] = "wait"]
                   /\ active' = Push("write")
                   /\ UNCHANGED <<ret, lastOp, written>>
    /\ UNCHANGED <<cfg, sink, timers, next, call, started, firedBy, ops>>
    /\ UNCHANGED run

\* one iteration of doWrite's loop
WriteStep ==
    /\ lpc = "write"
    /\ LET w == WriteByte(cfg, InHand)
       IN  /\ ev' = [ev EXCEPT !.buf = w.buf, !.exceeded = w.exceeded]
           /\ IF w.done
              THEN /\ WriteReturns(wr.caller, wr.p, w.n)
                   /\ active' = Pop("write")
              ELSE /\ wr' = [wr EXCEPT !.i = w.i, !.n = w.n]
                   /\ UNCHANGED <<ret, lastOp, written, cpc, lpc, active>>
    /\ UNCHANGED <<cfg, sink, timers, next, call, started, firedBy, ops>>
    /\ UNCHANGED run

\* doFlush starts: the record goes to the bufio.Writer and the buffer is reset
FlushBegins(who) ==
    /\ \E hour \in Hours : ev' = doFlush(cfg, ev, hour)
    /\ lpc' = "flush"
    /\ wr' = [NoWrite EXCEPT !.caller = who, !.early = FlushReturnsEarly(ev)]
    /\ active' = Push(IF who = "timer" THEN "timerflush" ELSE "flush")

\* case done := <-e.flush
LoopFlush(c) ==
    /\ AtSelect
    /\ Sending(c, "Flush")
    /\ FlushBegins(c)
    /\ cpc' = [cpc EXCEPT ![c] = "wait"]
    /\ UNCHANGED <<cfg, sink, timers, next, call, ret, lastOp, written, started, firedBy,
                   ops>>
    /\ UNCHANGED run

\* writeLoop can take the case <-next: it is at its select and the time is in
\* the channel it holds
TimerReadyUnserialised == next # 0 /\ timers[next] = "fired"
TimerReadyUnfired == AtSelect /\ next # 0 /\ timers[next] \in {"pending", "fired"}
TimerReady == AtSelect /\ next # 0 /\ timers[next] = "fired"

\* case <-next
LoopTimer ==
    /\ TimerReady
    /\ FlushBegins("timer")
    /\ timers' = [timers EXCEPT ![next] = "read"]
    /\ firedBy' = next
    /\ UNCHANGED <<cfg, sink, next, cpc, call, ret, lastOp, written, started, ops>>
    /\ UNCHANGED run

\* doFlush's deferred e.out.Flush(), then next = paused and, for Flush,
\* close(done)
FlushEnds ==
    /\ lpc = "flush"
    /\ sink' = outFlush(ev.out, sink)
    /\ ev' = [ev EXCEPT !.out = <<>>]
    /\ next' = 0
    /\ lpc' = "select"
    /\ wr' = NoWrite
    /\ IF wr.caller = "timer"
       THEN /\ lastOp' = "TimerFlush"
            /\ active' = Pop("timerflush")
            /\ UNCHANGED cpc
       ELSE /\ lastOp' = "Flush"
            /\ active' = Pop("flush")
            /\ cpc' = [cpc EXCEPT ![wr.caller] = "idle"]
    /\ written' = 0
    /\ UNCHANGED <<cfg, timers, call, ret, started, firedBy, ops>>
    /\ UNCHANGED run

\* next = paused
StopLeavesTimer == next
Paused == 0

\* case <-e.stop
LoopStop(c) ==
    /\ AtSelect
    /\ Sending(c, "Stop")
    /\ next' = Paused
    /\ cpc' = [cpc EXCEPT ![c] = "idle"]
    /\ UNCHANGED <<cfg, ev, sink, timers, lpc, wr, call, ret, lastOp, written, active,
                   started, firedBy, ops>>
    /\ UNCHANGED run

\* next = timer
StartTimerKeepsOld(timer) == IF next # 0 THEN next ELSE timer
StartTimer(timer) == timer

\* case timer := <-e.start
LoopStart(c) ==
    /\ AtSelect
    /\ Sending(c, "AutoFlush")
    /\ next' = StartTimer(call[c].timer)
    /\ started' = Append(started, call[c].timer)
    /\ cpc' = [cpc EXCEPT ![c] = "idle"]
    /\ UNCHANGED <<cfg, ev, sink, timers, lpc, wr, call, ret, lastOp, written, active,
                   firedBy, ops>>
    /\ UNCHANGED run

Next ==
    \/ \E c \in Callers, p \in ActorInputs : CallWrite(c, p)
    \/ \E c \in Callers : CallFlush(c)
    \/ \E c \in Callers : CallAutoFlush(c)
    \/ \E c \in Callers : CallStop(c)
    \/ \E c \in Callers : LoopWrite(c)
    \/ \E c \in Callers : LoopFlush(c)
    \/ \E c \in Callers : LoopStop(c)
    \/ \E c \in Callers : LoopStart(c)
    \/ \E t \in TimerIds : TimerExpire(t)
    \/ WriteStep
    \/ LoopTimer
    \/ FlushEnds
    \/ Drain

Spec == Init /\ [][Next]_vars

\* writeLoop keeps running, and its select, which picks among the ready cases
\* at random, does not pass over a ready timer for ever
FairSpec ==
    /\ Spec
    /\ WF_vars(WriteStep)
    /\ WF_vars(FlushEnds)
    /\ SF_vars(LoopTimer)

\* writeLoop receives what caller c sends
Receives(c) == LoopWrite(c) \/ LoopFlush(c) \/ LoopStop(c) \/ LoopStart(c)

\* writeLoop goes on with the operation in hand, and its select, which picks at
\* random among the ready cases, does not leave a ready sender out for ever
LiveOptionLists == {<<OptMaxLen(4)>>, <<OptMaxLen(0), OptAllowJSON(NoContext)>>}

LiveInit == Init /\ cfg \in {New(o) : o \in LiveOptionLists}

LiveSpec ==
    /\ LiveInit
    /\ [][Next]_vars
    /\ WF_vars(WriteStep)
    /\ WF_vars(FlushEnds)
    /\ \A c \in Callers : SF_vars(Receives(c))

(***************************************************************************)
(* The parser (package parser) and Golp.Run.  Run is the caller "main": it *)
(* reads a line, classifies it and makes its calls on the Event one at a   *)
(* time, each a send that writeLoop receives as above.  Run's goroutine    *)
(* for signals, which flushes and exits the process, is left out.  The     *)
(* reader of the sink consumes the records before Run reads its next line. *)
(*   run   where Run is (pc), the number of lines read (n), cont, the line *)
(*         in hand and its isPrefix, how the line was classified (kind),   *)
(*         the Event as the classification found it (before), and Run's    *)
(*         fields (g)                                                      *)
(***************************************************************************)
MaxLines == 3         \* lines Run reads before the end of its input

panicPrefix == <<"p", "a", "n", "i", "c", ":", " ">>

\* the templates in another order: the shortest ones first
logPrefixPatternsShortFirst ==
    << <<"2", "0", "0", "0", "/", "0", "1", "/", "0", "2", " ">>,
       <<"1", "2", ":", "0", "0", ":", "0", "0", " ">>,
       <<"1", "2", ":", "0", "0", ":", "0", "0", ".", "0", "0", "0", "0", "0", "0", " ">>,
       <<"2", "0", "0", "0", "/", "0", "1", "/", "0", "2", " ", "1", "2", ":", "0", "0", ":", "0", "0", " ">>,
       <<"2", "0", "0", "0", "/", "0", "1", "/", "0", "2", " ", "1", "2", ":", "0", "0", ":", "0", "0", ".", "0", "0", "0", "0", "0", "0", " ">> >>

logPrefixPatterns ==
    << <<"2", "0", "0", "0", "/", "0", "1", "/", "0", "2", " ", "1", "2", ":", "0", "0", ":", "0", "0", ".", "0", "0", "0", "0", "0", "0", " ">>,
       <<"2", "0", "0", "0", "/", "0", "1", "/", "0", "2", " ", "1", "2", ":", "0", "0", ":", "0", "0", " ">>,
       <<"1", "2", ":", "0", "0", ":", "0", "0", ".", "0", "0", "0", "0", "0", "0", " ">>,
       <<"2", "0", "0", "0", "/", "0", "1", "/", "0", "2", " ">>,
       <<"1", "2", ":", "0", "0", ":", "0", "0", " ">> >>

HasPrefix(line, prefix) ==
    Len(line) >= Len(prefix) /\ SubSeq(line, 1, Len(prefix)) = prefix

IsPanic(line) == HasPrefix(line, panicPrefix)

isNumber(b) == b \in {"0", "1", "2", "3", "4", "5", "6", "7", "8", "9"}

matchPattern(line, pattern) ==
    /\ Len(line) >= Len(pattern)
    /\ \A i \in 1 .. Len(pattern) :
          IF isNumber(pattern[i]) THEN isNumber(line[i]) ELSE pattern[i] = line[i]

\* the index of the beginning of the message, -1 if the line is no log line
IsLog(line, prefix) ==
    IF Len(line) < Len(prefix)
    THEN -1
    ELSE LET rest == SubSeq(line, Len(prefix) + 1, Len(line))
             hits == {i \in 1 .. Len(logPrefixPatterns) :
                         matchPattern(rest, logPrefixPatterns[i])}
         IN  IF hits = {}
             THEN -1
             ELSE LET first == CHOOSE i \in hits : \A j \in hits : i <= j
                  IN  Len(prefix) + Len(logPrefixPatterns[first])

\* IsJSON without its test of the length against 4
IsJSONAnyLength(line) ==
    /\ Len(line) >= 2
    /\ line[1] = "{" /\ line[2] = "q"
    /\ line[Len(line) - 1] = "q" /\ line[Len(line)] = "}"

IsJSON(line) ==
    /\ Len(line) >= 4
    /\ line[1] = "{" /\ line[2] = "q"
    /\ line[Len(line) - 1] = "q" /\ line[Len(line)] = "}"

\* the options Run passes to event.New
RunOptions(g) ==
    <<OptMaxLen(g.MaxLen), [opt |-> "AllowJSON", enabled |-> g.AllowJSON, ctx |-> g.Context]>>
    \o (IF g.MessageKey # <<>>
        THEN <<[opt |-> "JSONOutput", key |-> g.MessageKey, ctx |-> g.Context]>>
             \o (IF g.AddTimestamp THEN <<OptAddTimestamp>> ELSE <<>>)
        ELSE <<>>)

Golp(maxLen, strip, allowJSON, messageKey, context) ==
    [MaxLen |-> maxLen, Prefix |-> <<>>, Strip |-> strip, AllowJSON |-> allowJSON,
     MessageKey |-> messageKey, Context |-> context, AddTimestamp |-> FALSE]

RunConfigs ==
    { Golp(0, FALSE, FALSE, <<>>, NoContext),
      Golp(2, TRUE, FALSE, <<>>, NoContext),
      Golp(0, TRUE, TRUE, <<>>, OneContext),
      Golp(0, FALSE, TRUE, <<"m">>, NoContext) }

\* what ReadLine returns: the line without its end of line, and isPrefix when
\* the line did not fit the reader's buffer and more of it follows
Line(b, isPrefix) == [b |-> b, isPrefix |-> isPrefix]

RunLines ==
    { Line(<<"a">>, FALSE),
      Line(<<"a">>, TRUE),
      Line(<<"tab", "b">>, FALSE),
      Line(panicPrefix \o <<"x">>, FALSE),
      Line(<<"1", "2", ":", "3", "4", ":", "5", "6", " ", "m">>, FALSE),
      Line(<<"{", "q", "k", "q", "}">>, FALSE),
      Line(<<"{", "q", "k", "q", "}">>, TRUE),
      Line(<<"{", "q", "k">>, FALSE) }

Snapshot == [buf |-> ev.buf, out |-> ev.out, isJSON |-> ev.isJSON,
             exceeded |-> ev.exceeded]

RunInit ==
    /\ \E g \in RunConfigs :
          /\ cfg = New(RunOptions(g))
          /\ run = [pc |-> "read", n |-> 0, cont |-> FALSE, line |-> <<>>,
                    isPrefix |-> FALSE, kind |-> "none", before |-> EventInit, g |-> g]
    /\ ~cfg.err
    /\ InitCommon

RunIdle(pc) == run.pc = pc /\ cpc["main"] = "idle"

\* Run makes a call that sends to writeLoop
RunSends(op, p, timer) ==
    /\ cpc' = [cpc EXCEPT !["main"] = "send"]
    /\ call' = [call EXCEPT !["main"] = [op |-> op, p |-> p, timer |-> timer]]

\* Run without its flushes
RunNeverFlushes ==
    /\ call' = [call EXCEPT !["main"] = [op |-> "Flush", p |-> <<>>, timer |-> 0]]
    /\ UNCHANGED <<cpc, lastOp, written>>

\* e.Flush(): returns at once or sends, as CallFlush
RunFlushes ==
    \E early \in FlushReads :
       IF early
       THEN /\ call' = [call EXCEPT !["main"] = [op |-> "Flush", p |-> <<>>, timer |-> 0]]
            /\ lastOp' = "Flush"
            /\ written' = 0
            /\ UNCHANGED cpc
       ELSE /\ RunSends("Flush", <<>>, 0)
            /\ UNCHANGED <<lastOp, written>>

\* r.ReadLine() returns a line; e.Stop()
RunRead(l) ==
    /\ RunIdle("read")
    /\ run.n < MaxLines
    /\ sink = <<>>
    /\ run' = [run EXCEPT !.pc = "stop", !.n = @ + 1, !.line = l.b,
                          !.isPrefix = l.isPrefix, !.kind = "none"]
    /\ RunSends("Stop", <<>>, 0)
    /\ UNCHANGED <<cfg, ev, sink, timers, next, lpc, wr, ret, lastOp, written, active,
                   started, firedBy, ops>>

\* r.ReadLine() returns io.EOF: e.Flush() and break
RunEOF ==
    /\ RunIdle("read")
    /\ run' = [run EXCEPT !.pc = "done"]
    /\ RunFlushes
    /\ UNCHANGED <<cfg, ev, sink, timers, next, lpc, wr, ret, active, started, firedBy,
                   ops>>

\* the line taken in hand as if cont were never set
ClassifyEveryLine ==
    IF IsPanic(run.line) THEN "panic"
    ELSE IF IsLog(run.line, run.g.Prefix) > 0 THEN "log"
    ELSE IF run.g.AllowJSON /\ IsJSON(run.line) THEN "json"
    ELSE IF ~Empty(ev) THEN "join"
    ELSE "first"

\* how Run takes the line in hand
Classify ==
    IF run.cont THEN "cont"
    ELSE IF IsPanic(run.line) THEN "panic"
    ELSE IF IsLog(run.line, run.g.Prefix) > 0 THEN "log"
    ELSE IF run.g.AllowJSON /\ IsJSON(run.line) THEN "json"
    ELSE IF ~Empty(ev) THEN "join"
    ELSE "first"

\* the line without its header when Strip is set
Stripped ==
    IF run.g.Strip
    THEN SubSeq(run.line, IsLog(run.line, run.g.Prefix) + 1, Len(run.line))
    ELSE run.line

\* Stop has returned: the if of Run, up to the first call of the branch taken
RunClassify ==
    /\ RunIdle("stop")
    /\ LET kind == Classify
       IN  /\ run' = [run EXCEPT !.kind = kind,
                                 !.before = Snapshot,
                                 !.line = IF kind = "log" THEN Stripped ELSE @,
                                 !.pc = CASE kind \in {"panic", "log"} -> "flushed"
                                          [] kind = "json" -> "jsonflushed"
                                          [] kind = "join" -> "joined"
                                          [] OTHER -> "written"]
           /\ CASE kind \in {"panic", "log", "json"} -> RunFlushes
                [] kind = "join" ->
                      RunSends("Write", <<"nl">>, 0) /\ UNCHANGED <<lastOp, written>>
                [] OTHER ->
                      RunSends("Write", run.line, 0) /\ UNCHANGED <<lastOp, written>>
    /\ UNCHANGED <<cfg, ev, sink, timers, next, lpc, wr, ret, active, started, firedBy,
                   ops>>

\* e.Write(line), after the Flush of a header line or the Write of the newline
RunWriteLine ==
    /\ RunIdle("flushed") \/ RunIdle("joined")
    /\ run' = [run EXCEPT !.pc = "written"]
    /\ RunSends("Write", run.line, 0)
    /\ UNCHANGED <<cfg, ev, sink, timers, next, lpc, wr, ret, lastOp, written, active,
                   started, firedBy, ops>>

\* e.Write(line) of a JSON line
RunJSONWrite ==
    /\ RunIdle("jsonflushed")
    /\ run' = [run EXCEPT !.pc = "jsonwritten"]
    /\ RunSends("Write", run.line, 0)
    /\ UNCHANGED <<cfg, ev, sink, timers, next, lpc, wr, ret, lastOp, written, active,
                   started, firedBy, ops>>

\* e.Flush() of a JSON line and continue: cont keeps its value
RunJSONFlush ==
    /\ RunIdle("jsonwritten")
    /\ run' = [run EXCEPT !.pc = "read"]
    /\ RunFlushes
    /\ UNCHANGED <<cfg, ev, sink, timers, next, lpc, wr, ret, active, started, firedBy,
                   ops>>

\* e.AutoFlush(autoFlushDelay) and cont = isPrefix
RunAutoFlush ==
    /\ RunIdle("written")
    /\ run' = [run EXCEPT !.pc = "read", !.cont = run.isPrefix]
    /\ LET t == CHOOSE u \in TimerIds : u # next /\ \A v \in TimerIds : v < u => v = next
       IN  /\ timers' = [timers EXCEPT ![t] = "pending"]
           /\ RunSends("AutoFlush", <<>>, t)
    /\ UNCHANGED <<cfg, ev, sink, next, lpc, wr, ret, lastOp, written, active, started,
                   firedBy, ops>>

\* Run has returned
RunReturned == RunIdle("done")

RunNext ==
    \/ \E l \in RunLines : RunRead(l)
    \/ RunEOF
    \/ RunClassify
    \/ RunWriteLine
    \/ RunJSONWrite
    \/ RunJSONFlush
    \/ RunAutoFlush
    \/ LoopWrite("main")
    \/ LoopFlush("main")
    \/ LoopStop("main")
    \/ LoopStart("main")
    \/ \E t \in TimerIds : TimerExpire(t)
    \/ WriteStep
    \/ LoopTimer
    \/ FlushEnds
    \/ Drain

RunSpec == RunInit /\ [][RunNext]_vars

(***************************************************************************)
(* New called on every short list of options.                              *)
(*   run   the options passed (options) and whether New has run (pc)       *)
(***************************************************************************)
MaxOptions == 3       \* options passed to New

\* the caps tried: none, and each envelope's length and one less
CapChoices == {0, 1, 8, 9, 15, 16}

NewOptions ==
    {OptMaxLen(n) : n \in CapChoices} \cup {OptJSONOutput(NoContext), OptAddTimestamp}

NewInit ==
    /\ \E o \in Strings(NewOptions, MaxOptions) : run = [pc |-> "new", options |-> o]
    /\ cfg = NewEvent
    /\ InitCommon

\* e, err := New(out, options...)
NewCalled ==
    /\ run.pc = "new"
    /\ cfg' = New(run.options)
    /\ run' = [run EXCEPT !.pc = "built"]
    /\ UNCHANGED <<ev, sink, timers, next, lpc, wr, cpc, call, ret, lastOp, written,
                   active, started, firedBy, ops>>

NewNext == NewCalled

NewSpec == NewInit /\ [][NewNext]_vars

(***************************************************************************)
(* Writes of every byte doWrite escapes, with no cap, then a Flush.        *)
(*   run   the bytes written since New (p) and whether Flush was called    *)
(*         (pc)                                                            *)
(***************************************************************************)
MaxEscLen == 3        \* bytes written before the Flush

\* quote, backslash, backspace, form feed, newline, carriage return, tab, and
\* two letters, one of them the letter of an escape
EscBytes == {"q", "bs", "bsp", "ff", "nl", "cr", "tab", "a", "n"}

EscOptionLists == { <<>>, <<OptJSONOutput(NoContext)>> }

EscInit ==
    /\ cfg \in {New(o) : o \in EscOptionLists}
    /\ run = [pc |-> "write", p |-> <<>>]
    /\ InitCommon

\* e.Write(p)
EscWrite(p) ==
    /\ run.pc = "write"
    /\ p # <<>>
    /\ Len(run.p) + Len(p) <= MaxEscLen
    /\ LET r == doWrite(cfg, ev, p)
       IN  /\ ev' = r.st
           /\ ret' = [n |-> r.n, len |-> Len(p)]
    /\ run' = [run EXCEPT !.p = @ \o p]
    /\ lastOp' = "Write"
    /\ written' = written + Len(p)
    /\ UNCHANGED <<cfg, sink, timers, next, lpc, wr, cpc, call, active, started, firedBy,
                   ops>>

\* e.Flush()
EscFlush ==
    /\ run.pc = "write"
    /\ IF FlushReturnsEarly(ev)
       THEN UNCHANGED <<ev, sink, next>>
       ELSE \E hour \in Hours :
               LET st == doFlush(cfg, ev, hour)
               IN  /\ ev' = [st EXCEPT !.out = <<>>]
                   /\ sink' = outFlush(st.out, sink)
                   /\ next' = Paused
    /\ run' = [run EXCEPT !.pc = "flushed"]
    /\ lastOp' = "Flush"
    /\ written' = 0
    /\ UNCHANGED <<cfg, timers, lpc, wr, cpc, call, ret, active, started, firedBy, ops>>

EscNext ==
    \/ \E p \in Strings(EscBytes, MaxWriteLen) : EscWrite(p)
    \/ EscFlush

EscSpec == EscInit /\ [][EscNext]_vars

(***************************************************************************)
(* The parser's functions called on every short line and on lines built    *)
(* from the timestamp templates.                                           *)
(*   run   the line and the logger prefix passed (line, prefix), and what  *)
(*         IsPanic, IsLog and IsJSON returned for them                     *)
(***************************************************************************)
MaxLineLen == 5       \* longest of the lines enumerated byte by byte

ParseBytes == {"{", "q", "}", "a"}

\* a template with other digits, with its last byte changed, without its last
\* byte
Sevens(tpl) == [i \in 1 .. Len(tpl) |-> IF isNumber(tpl[i]) THEN "7" ELSE tpl[i]]
Spoiled(tpl) == [i \in 1 .. Len(tpl) |-> IF i = Len(tpl) THEN "a" ELSE tpl[i]]
Cut(tpl) == SubSeq(tpl, 1, Len(tpl) - 1)

Templates == {logPrefixPatterns[i] : i \in 1 .. Len(logPrefixPatterns)}

LogHeads == UNION {{tpl, Sevens(tpl), Spoiled(tpl), Cut(tpl)} : tpl \in Templates}

ParseLines ==
    Strings(ParseBytes, MaxLineLen)
    \cup {pre \o h \o t : pre \in {<<>>, <<"x">>, <<"z">>}, h \in LogHeads \cup {panicPrefix},
                          t \in {<<>>, <<"m">>}}

ParsePrefixes == {<<>>, <<"x">>, <<"x", "y">>}

ParserInit ==
    /\ \E l \in ParseLines, pre \in ParsePrefixes :
          run = [pc |-> "line", line |-> l, prefix |-> pre, isPanic |-> FALSE,
                 index |-> 0, isJSON |-> FALSE]
    /\ cfg = NewEvent
    /\ InitCommon

\* parser.IsPanic(line), parser.IsLog(line, prefix), parser.IsJSON(line)
Parse ==
    /\ run.pc = "line"
    /\ run' = [run EXCEPT !.pc = "parsed",
                          !.isPanic = IsPanic(run.line),
                          !.index = IsLog(run.line, run.prefix),
                          !.isJSON = IsJSON(run.line)]
    /\ UNCHANGED <<cfg, ev, sink, timers, next, lpc, wr, cpc, call, ret, lastOp, written,
                   active, started, firedBy, ops>>

ParserNext == Parse

ParserSpec == ParserInit /\ [][ParserNext]_vars

(***************************************************************************)
(* A sink whose writes can fail.  e.out is a bufio.Writer: a failed write  *)
(* of the underlying writer leaves the bytes it did not take in e.out and  *)
(* e.out refuses every later Write and Flush with the same error.  doWrite *)
(* and doFlush pass each error to logWriteErr and go on.  Nothing reads    *)
(* the bytes left in an e.out that holds an error: the model keeps no      *)
(* record of them.                                                         *)
(*   run   broken     e.out holds an error                                 *)
(*         failed     the last Flush met a write error                     *)
(*         wasBroken  broken before the last Flush                         *)
(*         cut        the last Flush was called with bytes in the buffer   *)
(*                    and bytes dropped past the cap                       *)
(***************************************************************************)
\* e.out after the Event wrote to it: what it holds when it refuses writes (it
\* keeps what it held) and when it takes them
outWrite(broken, held, st) == IF broken THEN [st EXCEPT !.out = held] ELSE st

\* doFlush went through its writes with err # nil: the state it returns in
\* is the one its code sets after logWriteErr
FlushOnErrorKeepsBuffer(e, st, hour) == st

FlushOnError(e, st, hour) == doFlush(e, st, hour)

FailOptionLists ==
    { <<OptMaxLen(0)>>,
      <<OptMaxLen(9)>>,
      <<OptMaxLen(16), OptJSONOutput(NoContext), OptAddTimestamp>>,
      <<OptMaxLen(0), OptAllowJSON(OneContext)>> }

FailInputs == {<<>>, <<"a">>, <<"bs">>, <<"a", "nl">>, JSONLine}

FailInit ==
    /\ cfg \in {New(o) : o \in FailOptionLists}
    /\ ~cfg.err
    /\ InitCommon
    /\ run = [pc |-> "sink", broken |-> FALSE, failed |-> FALSE, wasBroken |-> FALSE,
              cut |-> FALSE]

FailWrite(p) ==
    /\ sink = <<>>
    /\ cfg.maxLen = 0 => Len(ev.buf) <= MaxBuf
    /\ ev.exceeded > 0 => ev.exceeded + Len(p) <= MaxExceeded
    /\ ev.isJSON => Len(ev.out) <= MaxBuf /\ written <= MaxBuf
    /\ LET r == doWrite(cfg, ev, p)
       IN  /\ ev' = outWrite(run.broken, ev.out, r.st)
           /\ ret' = [n |-> r.n, len |-> Len(p)]
    /\ lastOp' = "Write"
    /\ written' = written + Len(p)
    /\ UNCHANGED <<cfg, sink, timers, next, actorVars>>

\* Event.Flush with the sink failing or not: the underlying writer takes none
\* of the pending bytes, or all but the last, and returns an error
FailFlush ==
    /\ \E hour \in Hours :
          IF FlushReturnsEarly(ev)
          THEN /\ UNCHANGED <<ev, sink, next>>
               /\ run' = [run EXCEPT !.failed = FALSE, !.wasBroken = run.broken,
                                     !.cut = (Len(ev.buf) > 0 /\ ev.exceeded > 0)]
          ELSE IF run.broken
          THEN /\ ev' = outWrite(TRUE, ev.out, FlushOnError(cfg, ev, hour))
               /\ run' = [run EXCEPT !.failed = TRUE, !.wasBroken = TRUE,
                                     !.cut = (Len(ev.buf) > 0 /\ ev.exceeded > 0)]
               /\ next' = 0
               /\ UNCHANGED sink
          ELSE \/ LET st == doFlush(cfg, ev, hour)
                  IN  /\ ev' = [st EXCEPT !.out = <<>>]
                      /\ sink' = outFlush(st.out, sink)
                      /\ next' = 0
                      /\ run' = [run EXCEPT !.failed = FALSE, !.wasBroken = FALSE,
                                            !.cut = (Len(ev.buf) > 0 /\ ev.exceeded > 0)]
               \/ LET st == FlushOnError(cfg, ev, hour)
                      out == doFlush(cfg, ev, hour).out
                  IN  \E n \in {0, Len(out) - 1} :
                         /\ ev' = [st EXCEPT !.out = <<>>]
                         /\ sink' = outFlush(SubSeq(out, 1, n), sink)
                         /\ next' = 0
                         /\ run' = [run EXCEPT !.broken = TRUE, !.failed = TRUE,
                                               !.wasBroken = FALSE,
                                               !.cut = (Len(ev.buf) > 0 /\ ev.exceeded > 0)]
    /\ lastOp' = "Flush"
    /\ written' = 0
    /\ UNCHANGED <<cfg, timers, ret, lpc, wr, cpc, call, active, started, firedBy, ops>>

FailNext ==
    \/ \E p \in FailInputs : FailWrite(p)
    \/ Drain
    \/ FailFlush

FailSpec == FailInit /\ [][FailNext]_vars

(***************************************************************************)
(* One caller, JSON input allowed and a cap: Writes of inputs that start   *)
(* as a JSON object and of inputs that do not, and flushes.                *)
(***************************************************************************)
CapJSONOptionLists ==
    { <<OptMaxLen(3), OptAllowJSON(NoContext)>>,
      <<OptMaxLen(3), OptAllowJSON(OneContext)>>,
      <<OptAllowJSON(NoContext), OptMaxLen(2)>> }

CapJSONInputs == Inputs \cup {<<"{", "q">>, <<"{", "q", "a">>}

CapJSONInit ==
    /\ cfg \in {New(o) : o \in CapJSONOptionLists}
    /\ ~cfg.err
    /\ InitCommon
    /\ run = NoRun

CapJSONNext ==
    \/ \E p \in CapJSONInputs : SeqWrite(p)
    \/ Drain
    \/ SeqFlush
    \/ SeqTimerFlush

CapJSONSpec == CapJSONInit /\ [][CapJSONNext]_vars

(***************************************************************************)
(* Reading a record back: the message between the envelope's prefix and    *)
(* its suffix, and the marker at the message's end.  No input byte of the  *)
(* model is "[", so the first "[" of a message starts its marker.          *)
(***************************************************************************)
TimeFieldLen == IF Len(cfg.timePrefix) > 0 THEN Len(cfg.timePrefix) + 4 ELSE 0

MsgOf(rec) == SubSeq(rec, Len(cfg.prefix) + 1, Len(rec) - Len(cfg.suffix) - TimeFieldLen)

BracketAt(m) ==
    IF \E i \in 1 .. Len(m) : m[i] = "["
    THEN CHOOSE i \in 1 .. Len(m) : m[i] = "[" /\ \A j \in 1 .. i - 1 : m[j] # "["
    ELSE 0

IsDigit(c) == c \in {"0", "1", "2", "3", "4", "5", "6", "7", "8", "9"}
DigitVal(c) == CHOOSE d \in 0 .. 9 : DigitChar(d) = c

RECURSIVE ParseInt(_)
ParseInt(ds) ==
    IF Len(ds) = 1 THEN DigitVal(ds[1])
    ELSE 10 * ParseInt(SubSeq(ds, 1, Len(ds) - 1)) + DigitVal(ds[Len(ds)])

\* m ends with "[", one or more digits, "]..."
HasMarker(m) ==
    LET k == BracketAt(m)
    IN  /\ k > 0
        /\ Len(m) >= k + 5
        /\ SubSeq(m, Len(m) - 3, Len(m)) = <<"]", ".", ".", ".">>
        /\ \A i \in k + 1 .. Len(m) - 4 : IsDigit(m[i])

MarkerValue(m) == ParseInt(SubSeq(m, BracketAt(m) + 1, Len(m) - 4))
KeptOf(m) == SubSeq(m, 1, BracketAt(m) - 1)

\* the number of input bytes whose whole escaped form is in s
RECURSIVE SrcLen(_)
SrcLen(s) ==
    IF s = <<>> THEN 0
    ELSE IF s[1] = "bs"
         THEN IF Len(s) >= 2 THEN 1 + SrcLen(SubSeq(s, 3, Len(s))) ELSE 0
         ELSE 1 + SrcLen(Tail(s))

\* s ends inside a two-character escape: with its backslash and without the
\* character after it
RECURSIVE EndsInsideEscape(_)
EndsInsideEscape(s) ==
    IF s = <<>> THEN FALSE
    ELSE IF s[1] = "bs"
         THEN IF Len(s) >= 2 THEN EndsInsideEscape(SubSeq(s, 3, Len(s))) ELSE TRUE
         ELSE EndsInsideEscape(Tail(s))

\* this step a flush wrote a record to the sink, and not in raw-JSON mode
EmitsRecord == sink' # sink /\ sink' # <<>> /\ ~ev.isJSON
Emitted == sink'[Len(sink')]

(***************************************************************************)
(* Claims on the emitted record (under SeqSpec).                           *)
(***************************************************************************)
\* C2: with a cap C > 0, every record a flush writes in normal mode is at most
\* C bytes long, envelope, marker, timestamp field and terminator included.
C2_RecordWithinCap ==
    [][(EmitsRecord /\ cfg.maxLen > 0) => Len(Emitted) <= cfg.maxLen]_vars

\* C3: the n of an emitted marker [n] is the number of input bytes written
\* since the last flush that are absent from the record: those written minus
\* those whose escaped form is kept before the marker.
C3_MarkerCountsOmitted ==
    [][(EmitsRecord /\ HasMarker(MsgOf(Emitted)))
         => MarkerValue(MsgOf(Emitted)) = written - SrcLen(KeptOf(MsgOf(Emitted)))]_vars

\* C4: the content kept before the marker never ends with the backslash of a
\* two-character escape whose second character was cut off.
C4_CutKeepsEscapesWhole ==
    [][(EmitsRecord /\ HasMarker(MsgOf(Emitted)))
         => ~EndsInsideEscape(KeptOf(MsgOf(Emitted)))]_vars

\* C5 as claimed: whenever bytes were dropped (exceeded > 0 at the flush of a
\* non-empty buffer) the record holds a marker [n]...
C5_MarkerWheneverDropped ==
    [][(EmitsRecord /\ ev.exceeded > 0) => HasMarker(MsgOf(Emitted))]_vars

\* C5 as amended: when bytes were dropped, the record holds a marker [n]...
\* exactly when the buffer is longer than the marker's estimated width, the 5
\* bytes of "[]..." plus the digits of exceeded + 5; a shorter buffer is
\* emitted whole.  A record of a flush that dropped nothing holds no marker.
C5_MarkerWhenRoom ==
    [][EmitsRecord =>
         /\ HasMarker(MsgOf(Emitted))
              <=> (ev.exceeded > 0 /\ Len(ev.buf) > 5 + Len(FormatInt(ev.exceeded + 5)))
         /\ ~HasMarker(MsgOf(Emitted)) => MsgOf(Emitted) = ev.buf]_vars

\* C5's case: a flush has written a record with a marker, and the accumulator
\* is reset
C5_Witness ==
    /\ lastOp \in {"Flush", "TimerFlush"}
    /\ sink # <<>>
    /\ HasMarker(MsgOf(sink[Len(sink)]))
    /\ ev.buf = <<>>

\* C6: after any flush completes, explicit or timer-triggered, the buffer is
\* empty and exceeded is 0.
C6_FlushResets ==
    lastOp \in {"Flush", "TimerFlush"} => (ev.buf = <<>> /\ ev.exceeded = 0)

\* C8: Write(p) returns n = len(p).
C8_WriteReturnsLen == lastOp = "Write" => ret.n = ret.len

(***************************************************************************)
(* Claims on the actor (under Spec and FairSpec).                          *)
(***************************************************************************)
Running(op) == \E i \in 1 .. Len(active) : active[i] = op

\* this step writeLoop takes the case <-next and starts the timer's flush
TimerFlushBegins == lpc = "select" /\ lpc' = "flush" /\ wr'.caller = "timer"
\* this step the timer's flush ends
TimerFlushEnds == lpc = "flush" /\ wr.caller = "timer" /\ lpc' = "select"

\* C1: no flush runs while a Write is part-way through its input, and two
\* flushes never run at the same time: at most one operation is at work on the
\* Event.
C1_Serialised ==
    /\ ~(Running("write") /\ (Running("timerflush") \/ Running("flush")))
    /\ ~(Running("timerflush") /\ Running("flush"))
    /\ Len(active) <= 1

\* C1's case: the timer writeLoop holds has fired while a Write is part-way
\* through escaping its input
C1_Witness ==
    /\ lpc = "write"
    /\ wr.i > 1
    /\ Running("write")
    /\ next # 0
    /\ timers[next] = "fired"

C9_TimerFlushes ==
    /\ [][TimerFlushBegins =>
            /\ next # 0 /\ timers[next] = "fired"
            /\ Len(ev.buf) > 0 => (ev'.buf = <<>> /\ Len(ev'.out) > Len(ev.buf))]_vars
    /\ [][Len(sink') > Len(sink) => lpc = "flush"]_vars
    /\ [][TimerFlushEnds =>
            /\ next' = 0
            /\ ev'.buf = <<>>
            /\ sink' = (IF ev.out = <<>> THEN sink ELSE Append(sink, ev.out))]_vars
    /\ [][\A t \in TimerIds : timers[t] = "read" => timers'[t] = "read"]_vars
    /\ \A t \in TimerIds :
          (next = t /\ timers[t] = "fired" /\ Len(ev.buf) > 0)
             ~> \/ (firedBy = t /\ lastOp = "TimerFlush" /\ ev.buf = <<>> /\ sink # <<>>)
                \/ (next # t /\ firedBy # t)

\* C9's case: the timer's flush has written the buffered event
C9_Witness ==
    /\ lastOp = "TimerFlush"
    /\ firedBy # 0
    /\ timers[firedBy] = "read"
    /\ sink # <<>>
    /\ ev.buf = <<>>
    /\ next = 0

\* C10: writeLoop holds one timer, that of the last AutoFlush it received: a
\* timer's flush is always triggered by that timer, never by one a later
\* AutoFlush replaced.
C10_OnlyLatestTimer ==
    [][TimerFlushBegins =>
         /\ started # <<>>
         /\ next = started[Len(started)]
         /\ firedBy' = started[Len(started)]]_vars

\* C10's case: a replaced timer has expired unread and the timer that replaced
\* it has flushed
C10_Witness ==
    /\ Len(started) >= 2
    /\ firedBy = started[Len(started)]
    /\ \E i \in 1 .. Len(started) - 1 :
          started[i] # firedBy /\ timers[started[i]] = "fired"

\* this step writeLoop receives caller c's Stop, and Stop returns
StopReturns(c) == AtSelect /\ Sending(c, "Stop") /\ cpc'[c] = "idle"
\* this step writeLoop receives an AutoFlush's timer
TimerReceived == \E c \in Callers : AtSelect /\ Sending(c, "AutoFlush") /\ cpc'[c] = "idle"

\* C11: when Stop returns writeLoop holds no timer and Stop has changed neither
\* the buffer, exceeded, isJSON nor the sink; from then on writeLoop holds no
\* timer, and starts no timer's flush, until it receives an AutoFlush.
C11_StopCancelsTimer ==
    /\ [][\A c \in Callers : StopReturns(c) => (next' = 0 /\ UNCHANGED <<ev, sink>>)]_vars
    /\ [][(next = 0 /\ next' # 0) => TimerReceived]_vars
    /\ [][next = 0 => ~TimerFlushBegins]_vars

\* C11's case: Stop has returned while the timer it cancelled has fired on a
\* non-empty buffer, and no flush was made of it
C11_Witness ==
    /\ \E c \in Callers : cpc[c] = "idle" /\ call[c].op = "Stop"
    /\ next = 0
    /\ lpc = "select"
    /\ Len(ev.buf) > 0
    /\ started # <<>>
    /\ timers[started[Len(started)]] = "fired"

\* this step caller c's Flush returns: at once, or when writeLoop has served it
FlushReturns(c) ==
    \/ CallFlush(c) /\ cpc'[c] = "idle"
    \/ FlushEnds /\ wr.caller = c

\* C12: when Flush returns writeLoop holds no timer, so that a timer an AutoFlush
\* scheduled before the Flush triggers no flush after it, whatever the buffer
\* held when Flush was called.
C12_FlushCancelsTimer ==
    [][\A c \in Callers : FlushReturns(c) => next' = 0]_vars

\* C13: Empty() is true exactly when the buffer length is 0 and the Event is
\* not in raw-JSON mode.
C13_EmptyIffNothingHeld == Empty(ev) <=> (Len(ev.buf) = 0 /\ ~ev.isJSON)

(***************************************************************************)
(* Claims on Run (under RunSpec).                                          *)
(***************************************************************************)
\* doWrite's escaping of a whole input
RECURSIVE Escaped(_)
Escaped(p) == IF p = <<>> THEN <<>> ELSE EscapeByte(Head(p)) \o Escaped(Tail(p))

\* the Event holds nothing of a record and writeLoop is at rest
HoldsNothing == ev.buf = <<>> /\ ev.out = <<>> /\ ~ev.isJSON /\ lpc = "select"

\* C14: with cont false, when Run takes a line for a panic or a log header the
\* previous event is flushed before the line is appended (the Event holds
\* nothing when Flush has returned), and after the line's Write the Event holds
\* this line only, so that the line is the first of its record.
C14_HeaderStartsRecord ==
    /\ (RunIdle("flushed") /\ run.kind \in {"panic", "log"}) => HoldsNothing
    /\ (RunIdle("written") /\ run.kind \in {"panic", "log"}) =>
          IF ev.isJSON
          THEN ev.out = cfg.jsonPrefix \o Tail(run.line) /\ ev.buf = <<>>
          ELSE /\ ev.out = <<>>
               /\ HasPrefix(Escaped(run.line), ev.buf)
               /\ ev.exceeded = 0 => ev.buf = Escaped(run.line)

\* C14's case: a panic line has been written after an event that was not empty
C14_Witness ==
    /\ RunIdle("written")
    /\ run.kind = "panic"
    /\ Len(run.before.buf) > 0
    /\ ev.buf = Escaped(run.line)

\* the step that ends the Flush Run called for its JSON line
JSONFlushEnds ==
    /\ run.pc = "read" /\ run.kind = "json"
    /\ lpc = "flush" /\ wr.caller = "main" /\ lpc' = "select"

\* C15: with AllowJSON, a line Run takes for a JSON object is a record of its
\* own: the Event holds nothing when the line is written, holds the context
\* prefix and the line without its brace after the Write, and the Flush writes
\* to the sink the one record of prefix, line and end of line, leaving nothing
\* for the next line.
C15_JSONLineAlone ==
    /\ [](RunIdle("jsonflushed") => HoldsNothing)
    /\ [](RunIdle("jsonwritten") =>
            (ev.isJSON /\ ev.buf = <<>> /\ ev.out = cfg.jsonPrefix \o Tail(run.line)))
    /\ [][JSONFlushEnds =>
            /\ sink' = Append(sink, cfg.jsonPrefix \o Tail(run.line) \o <<"nl">>)
            /\ ev'.buf = <<>> /\ ev'.out = <<>> /\ ~ev'.isJSON]_vars

\* C15's case: the record of a JSON line is in the sink, the line having come
\* after an event that was not empty
C15_Witness ==
    /\ RunIdle("read")
    /\ run.kind = "json"
    /\ Len(run.before.buf) > 0
    /\ sink # <<>>
    /\ sink[Len(sink)] = cfg.jsonPrefix \o Tail(run.line) \o <<"nl">>
    /\ HoldsNothing

\* what the Event holds of the current record, in st
Held(st) == IF st.isJSON THEN st.out ELSE st.buf

\* C16: when Run has written a line that is no panic, log or JSON header (cont
\* false) into an Event that was not empty (a non-empty buffer, or raw-JSON
\* mode), and nothing was dropped for the cap, the Event holds what it held,
\* an escaped newline and the line, and no raw newline.
C16_JoinedByEscapedNewline ==
    (/\ RunIdle("written")
     /\ run.kind \in {"join", "first"}
     /\ ~(Len(run.before.buf) = 0 /\ ~run.before.isJSON)
     /\ ev.exceeded = 0)
    => /\ Held(ev) = Held(run.before) \o <<"bs", "n">>
                       \o (IF run.before.isJSON THEN run.line ELSE Escaped(run.line))
       /\ \A i \in 1 .. Len(Held(ev)) : Held(ev)[i] # "nl"

\* C17: when Run returns at the end of its input nothing is left in the Event,
\* no write to the sink is in progress, and none happens later.
C17_NothingLeftAtReturn ==
    /\ [](RunReturned => HoldsNothing)
    /\ [][RunReturned => Len(sink') <= Len(sink)]_vars

(***************************************************************************)
(* Claims on New (under NewSpec).                                          *)
(***************************************************************************)
Positions(o, name) == {i \in 1 .. Len(o) : o[i].opt = name}
Last(S) == CHOOSE i \in S : \A j \in S : j <= i

\* the cap New is left with: that of the last MaxLen
CapOf(o) ==
    IF Positions(o, "MaxLen") = {} THEN 0 ELSE o[Last(Positions(o, "MaxLen"))].maxLen

\* an AddTimestamp with no JSONOutput before it
TimestampBeforeJSON(o) ==
    \E i \in Positions(o, "AddTimestamp") : \A j \in Positions(o, "JSONOutput") : j > i

\* the fixed bytes of a record: prefix and suffix, and with a timestamp its key
\* (between "," and :) and its format
Envelope(o) ==
    LET js == Positions(o, "JSONOutput")
        ts == Positions(o, "AddTimestamp")
        prefixLen == IF js = {} THEN 0 ELSE Len(o[Last(js)].key) + Len(<<"{", "q", "q", ":", "q">>)
        suffixLen == IF js = {} THEN Len(<<"nl">>)
                     ELSE IF ts # {} /\ Last(ts) > Last(js) THEN Len(<<"}", "nl">>)
                     ELSE Len(<<"q", "}", "nl">>)
        timeLen == IF ts = {} THEN 0
                   ELSE Len(o[Last(ts)].key) + Len(<<"q", ",", "q", "q", ":">>)
                        + Len(o[Last(ts)].format)
    IN  prefixLen + suffixLen + timeLen

CapBelowEnvelope(o) == CapOf(o) > 0 /\ CapOf(o) < Envelope(o)

\* C18: New fails exactly when the cap is positive and below the envelope,
\* whatever the order of the options.
C18_FailsIffCapBelowEnvelope ==
    run.pc = "built" => (cfg.err <=> CapBelowEnvelope(run.options))

\* C18 as the code has it: New fails exactly when an AddTimestamp comes with no
\* JSONOutput before it, or the cap is positive and below the envelope.
C18_FailsIffCapOrOrder ==
    run.pc = "built" =>
       (cfg.err <=> (TimestampBeforeJSON(run.options) \/ CapBelowEnvelope(run.options)))

\* C18's case: New has failed for a cap one below the envelope with its
\* timestamp, MaxLen being the first option
C18_Witness ==
    /\ run.pc = "built"
    /\ cfg.err
    /\ Len(run.options) = 3
    /\ run.options[1].opt = "MaxLen"
    /\ Positions(run.options, "AddTimestamp") # {}
    /\ ~TimestampBeforeJSON(run.options)
    /\ CapOf(run.options) = Envelope(run.options) - 1

(***************************************************************************)
(* Claims on raw JSON and on escaping.                                     *)
(***************************************************************************)
\* the prefix of a raw-JSON record for a context
ContextPrefix(ctx) ==
    IF ctx = <<>> THEN <<"{">>
    ELSE [i \in 1 .. Len(ctx) |-> IF i = Len(ctx) THEN "," ELSE ctx[i]]

\* Run's Write of its line was the first Write since a flush
FirstWriteSinceFlush ==
    \/ run.kind \in {"panic", "log", "json"}
    \/ run.kind \in {"first", "cont"} /\ run.before.buf = <<>> /\ ~run.before.isJSON

\* Run's line has been written, by a Write that came first after a flush, with
\* AllowJSON, and the line starts with {"
JSONWritten ==
    /\ RunIdle("written") \/ RunIdle("jsonwritten")
    /\ run.g.AllowJSON
    /\ FirstWriteSinceFlush
    /\ Len(run.line) >= 2 /\ run.line[1] = "{" /\ run.line[2] = "q"

\* C19: with AllowJSON, after a first Write since a flush whose input starts
\* with {", the Event holds, unescaped, the context prefix ({ for an empty
\* context, else the context with its closing brace replaced by a comma) and the
\* input without its brace; the flush adds the end of line and writes the whole
\* to the sink in one write; with an empty context that is the input and the end
\* of line.
C19_RawJSONRecord ==
    /\ [](JSONWritten =>
            /\ ev.isJSON /\ ev.buf = <<>>
            /\ ev.out = ContextPrefix(run.g.Context) \o Tail(run.line)
            /\ run.g.Context = <<>> => ev.out = run.line)
    /\ [][(lpc = "select" /\ lpc' = "flush" /\ ev.isJSON) =>
            (ev'.out = ev.out \o <<"nl">> /\ ~ev'.isJSON /\ ev'.buf = <<>>)]_vars
    /\ [][(lpc = "flush" /\ lpc' = "select" /\ ev.out # <<>>) =>
            (sink' = Append(sink, ev.out) /\ ev'.out = <<>>)]_vars

\* C19's case: a line that starts with {" has gone to the sink, unescaped, behind
\* a context
C19_Witness ==
    /\ run.pc = "read"
    /\ run.kind = "first"
    /\ run.g.AllowJSON /\ run.g.Context # <<>>
    /\ Len(run.line) >= 2 /\ run.line[1] = "{" /\ run.line[2] = "q"
    /\ sink # <<>>
    /\ sink[Len(sink)] = ContextPrefix(run.g.Context) \o Tail(run.line) \o <<"nl">>

\* the byte an escape stands for, "?" if it is no escape
UnescapeChar(c) ==
    CASE c = "q" -> "q"
      [] c = "bs" -> "bs"
      [] c = "b" -> "bsp"
      [] c = "f" -> "ff"
      [] c = "n" -> "nl"
      [] c = "r" -> "cr"
      [] c = "t" -> "tab"
      [] OTHER -> "?"

\* s unescaped; a "?" stands for whatever is no escape of doWrite: a backslash
\* followed by nothing or by another byte, or a raw byte of the escaped set
RECURSIVE Unescape(_)
Unescape(s) ==
    IF s = <<>> THEN <<>>
    ELSE IF Head(s) = "bs"
         THEN IF Len(s) >= 2
              THEN <<UnescapeChar(s[2])>> \o Unescape(SubSeq(s, 3, Len(s)))
              ELSE <<"?">>
    ELSE IF Head(s) \in {"q", "bsp", "ff", "nl", "cr", "tab"}
         THEN <<"?">> \o Unescape(Tail(s))
    ELSE <<Head(s)>> \o Unescape(Tail(s))

\* the bytes of p that doWrite escapes
Specials(p) == {i \in 1 .. Len(p) : p[i] \in {"q", "bs", "bsp", "ff", "nl", "cr", "tab"}}

\* C20: with no cap and in normal mode the buffer is the escaped form of the
\* bytes written: each of quote, backslash, backspace, form feed, newline,
\* carriage return and tab as a two-byte escape, every other byte as it is, so
\* that the buffer holds no raw byte of that set and unescaping it, or the
\* content of the flushed record, gives the bytes written.
C20_EscapeRoundTrip ==
    /\ run.pc = "write" =>
          /\ Unescape(ev.buf) = run.p
          /\ Len(ev.buf) = Len(run.p) + Cardinality(Specials(run.p))
    /\ (run.pc = "flushed" /\ run.p # <<>>) =>
          /\ Len(sink) = 1
          /\ Unescape(MsgOf(sink[1])) = run.p
          /\ ev.buf = <<>>

\* C20's case: a record was flushed whose bytes were a tab, a backslash and the
\* letter n
C20_Witness ==
    /\ run.pc = "flushed"
    /\ run.p = <<"tab", "bs", "n">>
    /\ Len(sink) = 1
    /\ MsgOf(sink[1]) = <<"bs", "t", "bs", "bs", "n">>

(***************************************************************************)
(* Claims on the parser (under ParserSpec).                                *)
(***************************************************************************)
\* template tpl matches line from offset off on: a digit of the template stands
\* for any digit, every other byte for itself
MatchesAt(line, off, tpl) ==
    /\ Len(line) >= off + Len(tpl)
    /\ \A i \in 1 .. Len(tpl) :
          IF tpl[i] \in {"0", "1", "2", "3", "4", "5", "6", "7", "8", "9"}
          THEN line[off + i] \in {"0", "1", "2", "3", "4", "5", "6", "7", "8", "9"}
          ELSE line[off + i] = tpl[i]

MatchingTemplates(line, prefix) == {tpl \in Templates : MatchesAt(line, Len(prefix), tpl)}

LongestOf(S) == CHOOSE tpl \in S : \A other \in S : Len(other) <= Len(tpl)

\* C21: IsLog(line, prefix) returns len(prefix) plus the length of the longest
\* template that matches the line at offset len(prefix), and -1 when none does
\* (a line shorter than prefix plus template included).
C21_IsLogLongestTemplate ==
    run.pc = "parsed" =>
       LET m == MatchingTemplates(run.line, run.prefix)
       IN  run.index = IF m = {} THEN -1 ELSE Len(run.prefix) + Len(LongestOf(m))

\* C21's case: behind a prefix, a line of date, time and microseconds in other
\* digits than the template's, which three shorter templates match as well
C21_Witness ==
    /\ run.pc = "parsed"
    /\ run.prefix = <<"x">>
    /\ run.line = <<"x">> \o Sevens(logPrefixPatterns[1]) \o <<"m">>
    /\ Cardinality(MatchingTemplates(run.line, run.prefix)) >= 2
    /\ run.index = Len(run.line) - 1

\* C30: IsJSON(line) is true exactly when the line has at least 4 bytes, starts
\* with { and " and ends with " and }: the bytes between play no part.
C30_IsJSONFirstAndLastTwo ==
    run.pc = "parsed" =>
       (run.isJSON <=>
          /\ Len(run.line) >= 4
          /\ SubSeq(run.line, 1, 2) = <<"{", "q">>
          /\ SubSeq(run.line, Len(run.line) - 1, Len(run.line)) = <<"q", "}">>)

\* C30's case: the shortest line taken for JSON, {""}
C30_Witness ==
    /\ run.pc = "parsed"
    /\ run.isJSON
    /\ run.line = <<"{", "q", "q", "}">>

\* C35: IsLog returns an index other than -1 only for a line that starts with
\* the bytes of prefix, followed by a timestamp that matches a template.
C35_HeaderOnlyBehindPrefix ==
    (run.pc = "parsed" /\ run.index # -1) =>
       (/\ HasPrefix(run.line, run.prefix)
        /\ MatchingTemplates(run.line, run.prefix) # {})

(***************************************************************************)
(* Claims on the progress of the Event (under SeqSpec).                    *)
(***************************************************************************)
\* C36: with a cap, a flush that follows Writes of at least one byte writes a
\* record to the sink.
C36_FlushEmitsWhatWasWritten ==
    [][(cfg.maxLen > 0 /\ written > 0 /\ written' = 0) => Len(sink') > Len(sink)]_vars

InWindow ==
    \/ RunIdle("stop")
    \/ run.pc \in {"flushed", "jsonflushed", "joined", "jsonwritten", "written"}
    \/ run.pc = "read" /\ run.kind = "json"

\* this step writeLoop starts a flush
AFlushBegins == lpc = "select" /\ lpc' = "flush"

\* C23: between the return of the Stop that Run calls after reading a line and
\* the AutoFlush it calls for that line, writeLoop holds no timer and neither
\* runs nor starts a timer's flush: every flush that starts is a Flush that Run
\* called for a panic, log or JSON line.
C23_NoTimerFlushInWindow ==
    /\ [](InWindow => (next = 0 /\ ~(lpc = "flush" /\ wr.caller = "timer")))
    /\ [][(InWindow /\ AFlushBegins) =>
             (/\ ~TimerFlushBegins
              /\ wr'.caller = "main"
              /\ call["main"].op = "Flush"
              /\ run.kind \in {"panic", "log", "json"})]_vars

\* C23's case: the timer of the line before expires while Run has the next line
\* in hand, written and not yet followed by its AutoFlush
C23_Witness ==
    /\ RunIdle("written")
    /\ run.n >= 2
    /\ \E i \in 1 .. Len(started) : timers[started[i]] = "fired"

\* C24: whenever Run is about to read a line, cont is the isPrefix that the
\* read before returned (FALSE before the first read), whichever branch the
\* line before took.
C24_ContIsLastPrefix ==
    run.pc = "read" => run.cont = run.isPrefix

\* this step Run goes on to its next call on the Event
RunCalls == run'.pc # run.pc

\* C25: a line read while cont is set is passed whole to e.Write as the first
\* call after e.Stop, whatever its first bytes are, and the call after that
\* Write is e.AutoFlush: no Flush, no Write of a newline, no header stripped.
C25_ContinuationAppended ==
    /\ [][(RunClassify /\ run.cont) =>
             (/\ call'["main"] = [op |-> "Write", p |-> run.line, timer |-> 0]
              /\ cpc'["main"] = "send"
              /\ run'.line = run.line
              /\ run'.kind = "cont")]_vars
    /\ [](run.kind = "cont" => run.pc \in {"written", "read", "done"})
    /\ [][(run.kind = "cont" /\ run.pc = "written" /\ RunCalls) =>
             (call'["main"].op = "AutoFlush" /\ cpc'["main"] = "send")]_vars

\* C25's case: with Strip set, a line that starts with a log timestamp was read
\* while cont was set and Run is about to call AutoFlush
C25_Witness ==
    /\ RunIdle("written")
    /\ run.kind = "cont"
    /\ run.g.Strip
    /\ IsLog(run.line, run.g.Prefix) > 0
    /\ ~Empty(run.before)

(***************************************************************************)
(* Claims on the cap, the raw-JSON record and the buffer (under SeqSpec).  *)
(***************************************************************************)
\* C26: with a cap, Write keeps in the buffer no more than what fits the cap
\* together with the prefix, the suffix and, when a timestamp is configured,
\* the timestamp field.
C26_CapCountsTimestamp ==
    (cfg.maxLen > 0 /\ Len(ev.buf) > 0) =>
       Len(ev.buf) + Len(cfg.prefix) + Len(cfg.suffix) + TimeFieldLen <= cfg.maxLen

\* this step a flush runs in raw-JSON mode
RawJSONFlush == (SeqFlush \/ SeqTimerFlush) /\ ev.isJSON

\* C27 as stated: in raw-JSON mode a flush writes a closing brace and the end
\* of line behind what the Writes passed, and leaves raw-JSON mode.
C27_FlushClosesObject ==
    [][RawJSONFlush =>
         (/\ sink' = Append(sink, ev.out \o <<"}", "nl">>)
          /\ ~ev'.isJSON)]_vars

\* C27: in raw-JSON mode a flush writes the end of line, and nothing else,
\* behind what the Writes passed (the closing brace of the record is the
\* input's own), in one write to the sink, and leaves raw-JSON mode.
C27_FlushEndsLine ==
    [][RawJSONFlush =>
         (/\ sink' = Append(sink, ev.out \o <<"nl">>)
          /\ ev'.out = <<>>
          /\ ~ev'.isJSON)]_vars

\* C27's case: a JSON object was written and flushed: the record in the sink is
\* the object, behind the context if any, and the end of line
C27_Witness ==
    /\ cfg.allowJSON
    /\ lastOp \in {"Flush", "TimerFlush"}
    /\ ~ev.isJSON
    /\ sink = << cfg.jsonPrefix \o Tail(JSONLine) \o <<"nl">> >>

\* C28: the buffer is non-empty exactly when a Write was called since the last
\* flush (or since New), whatever bytes the Writes passed.
C28_BufferIffWritten ==
    (Len(ev.buf) > 0) <=> (lastOp = "Write")

(***************************************************************************)
(* Claims on what a caller observes (under Spec).                          *)
(***************************************************************************)
\* writeLoop is inside the timer's doFlush: the buffer and the raw-JSON flag are
\* reset and the record is not yet written to the sink
TimerFlushPartWay == lpc = "flush" /\ wr.caller = "timer" /\ ev.out # <<>>

\* C29: no caller reads the buffer or the raw-JSON flag while the timer's flush
\* is part-way through: a Flush never takes its decision to return at once
\* from what the Event holds between the reset and the write to the sink.
C29_NoReadPartWay ==
    [][\A c \in Callers : (CallFlush(c) /\ cpc'[c] = "idle") => ~TimerFlushPartWay]_vars

(***************************************************************************)
(* Claims on raw-JSON mode and the cap (under CapJSONSpec).                *)
(***************************************************************************)
\* C31: in raw-JSON mode the buffer is empty, and a Write made in raw-JSON mode
\* or entering it leaves the buffer and exceeded as they were: the cap is not
\* applied to what such a Write passes.
C31_RawJSONKeepsBufferEmpty ==
    /\ [](ev.isJSON => ev.buf = <<>>)
    /\ [][(lastOp' = "Write" /\ ev'.isJSON) =>
             (ev'.buf = ev.buf /\ ev'.exceeded = ev.exceeded)]_vars

\* C31's case: with a cap, a Write made in raw-JSON mode has taken what the
\* Event holds past the cap, and nothing is counted as dropped
C31_Witness ==
    /\ cfg.maxLen > 0
    /\ ev.isJSON
    /\ lastOp = "Write"
    /\ ret.n = ret.len /\ ret.len > 0
    /\ Len(ev.out) > Len(cfg.jsonPrefix) + ret.len - 1
    /\ Len(ev.out) > cfg.maxLen
    /\ ev.exceeded = 0

(***************************************************************************)
(* Claims on fragments and on the bytes of the input (under RunSpec).      *)
(***************************************************************************)
\* C32: when Run takes in hand the remainder of a line whose first part it read
\* with isPrefix set, the Event still holds that first part: no flush has put
\* a record boundary between the two.
C32_FragmentsInOneRecord ==
    run.kind = "cont" =>
       (Len(run.before.buf) > 0 \/ run.before.isJSON \/ run.before.exceeded > 0)

\* C33: with no cap and JSON input not allowed, when Run has returned every
\* byte it read is in a record written to the sink: none is still in the
\* buffer or on its way to the sink.
C33_NoByteLeftBehind ==
    (RunReturned /\ cfg.maxLen = 0 /\ ~cfg.allowJSON) =>
       (ev.buf = <<>> /\ ev.out = <<>> /\ lpc = "select")

(***************************************************************************)
(* Claims on termination (under LiveSpec).                                 *)
(***************************************************************************)
\* caller c is inside a call of Write, Flush, AutoFlush or Stop
InCall(c) == cpc[c] \in {"send", "wait"}

\* C34: every call of Write, Flush, AutoFlush and Stop returns, whatever the
\* other caller does and whenever the timers expire.
C34_EveryCallReturns ==
    \A c \in Callers : InCall(c) ~> (cpc[c] = "idle")

\* C34's case: the callers have made all their calls, a Write the last to
\* return, a timer's flush has run between them, and every call has returned
C34_Witness ==
    /\ ops = MaxOps
    /\ \A c \in Callers : cpc[c] = "idle"
    /\ lastOp = "Write"
    /\ firedBy # 0
    /\ lpc = "select"

=============================================================================
